---- MODULE Spec2Model ----
(***************************************************************************)
(* Model of the Lumi ledger engine: Blockchain (src/blockchain/index.js)   *)
(* and the PubSub listener that feeds it (src/unnamed/part_000).           *)
(* Block, cryptoHash, Transaction, Wallet and config are not part of the   *)
(* available sources; they are modelled from the specification.            *)
(***************************************************************************)
EXTENDS Integers, Sequences, FiniteSets, TLC

(***************************************************************************)
(* Bounds of the model.                                                    *)
(***************************************************************************)
\* longest local chain addBlock is allowed to build (blocks, genesis included)
MaxLen == 2
\* most transactions in the data of one block handed to validTransactionData
MaxTxs == 3
\* longest chain of the long runs of addBlock and replaceChain (SpecLedger)
MaxChain == 5

(***************************************************************************)
(* Serialisation (JSON.stringify) to strings, modelled as token sequences. *)
(* Integers from -100 on are numbers and characters, the integers below   *)
(* are punctuation.                                                        *)
(***************************************************************************)
Tok(name) ==
    CASE name = "quote"  -> 0 - 101
      [] name = "lbrack" -> 0 - 102
      [] name = "rbrack" -> 0 - 103
      [] name = "lbrace" -> 0 - 104
      [] name = "rbrace" -> 0 - 105
      [] name = "space"  -> 0 - 106

RECURSIVE Flatten(_)
Flatten(seqs) ==
    IF seqs = <<>> THEN <<>> ELSE Head(seqs) \o Flatten(Tail(seqs))

StringifyNumber(n) == <<n>>

StringifyString(s) == <<Tok("quote")>> \o s \o <<Tok("quote")>>

StringifyOutputMap(outputMap) ==
    <<Tok("lbrace")>>
      \o Flatten([k \in 1..Len(outputMap) |->
                    <<outputMap[k].address, outputMap[k].amount>>])
      \o <<Tok("rbrace")>>

\* the object identity (ref) of a transaction is not part of its JSON text
StringifyTransaction(t) ==
    <<Tok("lbrace"), t.id, t.input.address, t.input.amount, t.input.signature.signer>>
      \o StringifyOutputMap(t.input.signature.signed)
      \o StringifyOutputMap(t.outputMap)
      \o <<Tok("rbrace")>>

StringifyData(data) ==
    IF data.kind = "raw"
    THEN StringifyString(data.raw)
    ELSE <<Tok("lbrack")>>
           \o Flatten([k \in 1..Len(data.txs) |-> StringifyTransaction(data.txs[k])])
           \o <<Tok("rbrack")>>

StringifyBlock(b) ==
    <<Tok("lbrace")>>
      \o StringifyNumber(b.timestamp) \o StringifyString(b.lastHash)
      \o StringifyString(b.hash) \o StringifyData(b.data)
      \o StringifyNumber(b.nonce) \o StringifyNumber(b.difficulty)
      \o <<Tok("rbrace")>>

(***************************************************************************)
(* cryptoHash: serialise every input, sort, join, digest.                  *)
(***************************************************************************)
RECURSIVE LexLess(_, _)
LexLess(a, b) ==
    IF a = <<>> THEN b # <<>>
    ELSE IF b = <<>> THEN FALSE
    ELSE IF Head(a) # Head(b) THEN Head(a) < Head(b)
    ELSE LexLess(Tail(a), Tail(b))

RECURSIVE Insert(_, _)
Insert(x, sorted) ==
    IF sorted = <<>> THEN <<x>>
    ELSE IF LexLess(Head(sorted), x) THEN <<Head(sorted)>> \o Insert(x, Tail(sorted))
    ELSE <<x>> \o sorted

RECURSIVE Sort(_)
Sort(seqs) ==
    IF seqs = <<>> THEN <<>> ELSE Insert(Head(seqs), Sort(Tail(seqs)))

RECURSIVE Join(_)
Join(seqs) ==
    IF seqs = <<>> THEN <<>>
    ELSE IF Len(seqs) = 1 THEN Head(seqs)
    ELSE Head(seqs) \o <<Tok("space")>> \o Join(Tail(seqs))

\* the digest of a string: SHA-256 stood in for by a polynomial hash over the
\* characters, rendered as a string of one symbol
DigestStep(h, c) == (h * 131 + c + 200) % 15485863

\* four characters a step as long as four are left (h is never negative)
RECURSIVE DigestFrom(_, _, _)
DigestFrom(preimage, k, h) ==
    IF h < 0 \/ k > Len(preimage) THEN h
    ELSE IF k + 3 <= Len(preimage)
         THEN DigestFrom(preimage, k + 4,
                         DigestStep(DigestStep(DigestStep(DigestStep(h,
                             preimage[k]), preimage[k + 1]), preimage[k + 2]),
                             preimage[k + 3]))
    ELSE DigestFrom(preimage, k + 1, DigestStep(h, preimage[k]))

Digest(preimage) == <<DigestFrom(preimage, 1, 1)>>

\* variant: the serialised arguments joined in argument order
cryptoHashInOrder(inputs) == Digest(Join(inputs))

\* inputs: the already serialised arguments, in argument order
cryptoHash(inputs) == Digest(Join(Sort(inputs)))

BlockHash(timestamp, lastHash, data, nonce, difficulty) ==
    cryptoHash(<<StringifyNumber(timestamp), StringifyString(lastHash),
                 StringifyData(data), StringifyNumber(nonce),
                 StringifyNumber(difficulty)>>)

(***************************************************************************)
(* config: values the specification leaves open are fixed here.            *)
(***************************************************************************)
MINE_RATE == 1000

INITIAL_DIFFICULTY == 2

MINING_REWARD == 50

REWARD_INPUT == [address |-> 0]

(***************************************************************************)
(* Transactions.  ref is the identity of the JavaScript object: two        *)
(* transactions with equal content and different ref are distinct objects. *)
(***************************************************************************)
Out(address, amount) == [address |-> address, amount |-> amount]

Signature(signer, signed) == [signer |-> signer, signed |-> signed]

Transaction(ref, id, address, amount, signature, outputMap) ==
    [ref |-> ref, id |-> id,
     input |-> [address |-> address, amount |-> amount, signature |-> signature],
     outputMap |-> outputMap]

\* Transaction.rewardTransaction({ minerWallet }) with the given output map
RewardTransaction(ref, id, outputMap) ==
    Transaction(ref, id, REWARD_INPUT.address, 0, Signature(0, <<>>), outputMap)

\* wallet.createTransaction: the sender signs the output map
SignedTransaction(ref, id, address, amount, outputMap) ==
    Transaction(ref, id, address, amount, Signature(address, outputMap), outputMap)

RECURSIVE SumAmounts(_)
SumAmounts(outputMap) ==
    IF outputMap = <<>> THEN 0
    ELSE Head(outputMap).amount + SumAmounts(Tail(outputMap))

\* outputMap[address], 0 when the key is absent
OutputFor(outputMap, address) ==
    IF \E k \in 1..Len(outputMap) : outputMap[k].address = address
    THEN outputMap[CHOOSE k \in 1..Len(outputMap) : outputMap[k].address = address].amount
    ELSE 0

verifySignature(publicKey, data, signature) ==
    signature.signer = publicKey /\ signature.signed = data

validTransaction(transaction) ==
    IF transaction.input.amount # SumAmounts(transaction.outputMap) THEN FALSE
    ELSE IF ~verifySignature(transaction.input.address, transaction.outputMap,
                             transaction.input.signature) THEN FALSE
    ELSE TRUE

(***************************************************************************)
(* Block                                                                   *)
(***************************************************************************)
TxData(txs) == [kind |-> "txs", txs |-> txs, raw |-> <<>>]

RawData(raw) == [kind |-> "raw", txs |-> <<>>, raw |-> raw]

Block(timestamp, lastHash, hash, data, nonce, difficulty) ==
    [timestamp |-> timestamp, lastHash |-> lastHash, hash |-> hash,
     data |-> data, nonce |-> nonce, difficulty |-> difficulty]

\* the strings '-----' and 'hash-one' of the genesis constant, as characters
Genesis == Block(1, <<45>>, <<103>>, TxData(<<>>), 0, INITIAL_DIFFICULTY)

adjustDifficulty(originalBlock, timestamp) ==
    IF originalBlock.difficulty < 1 THEN 1
    ELSE IF timestamp - originalBlock.timestamp > MINE_RATE
         THEN originalBlock.difficulty - 1
    ELSE originalBlock.difficulty + 1

\* how a mining run can end: at once, or after more attempts than MINE_RATE
\* leaves time for (the nonce counts the attempts, each attempt takes time)
MineRuns == {[nonce |-> 1, elapsed |-> 1], [nonce |-> 2, elapsed |-> MINE_RATE + 1]}

\* the block a mining run returns
mineBlock(lastBlock, data, run) ==
    LET timestamp == lastBlock.timestamp + run.elapsed
        nonce == run.nonce
        difficulty == adjustDifficulty(lastBlock, timestamp)
    IN  Block(timestamp, lastBlock.hash,
              BlockHash(timestamp, lastBlock.hash, data, nonce, difficulty),
              data, nonce, difficulty)

(***************************************************************************)
(* Wallet.calculateBalance: backward scan of the chain                     *)
(***************************************************************************)
RECURSIVE CreditsIn(_, _)
CreditsIn(txs, address) ==
    IF txs = <<>> THEN 0
    ELSE OutputFor(Head(txs).outputMap, address) + CreditsIn(Tail(txs), address)

SpendsIn(txs, address) == {k \in 1..Len(txs) : txs[k].input.address = address}

RECURSIVE BalanceFrom(_, _, _, _)
BalanceFrom(chain, address, i, credits) ==
    IF i < 2 THEN credits
    ELSE LET txs == chain[i].data.txs
             spends == SpendsIn(txs, address)
         IN  IF spends # {}
             THEN txs[CHOOSE k \in spends : \A m \in spends : m <= k].input.amount
                    + credits
             ELSE BalanceFrom(chain, address, i - 1, credits + CreditsIn(txs, address))

calculateBalance(chain, address) == BalanceFrom(chain, address, Len(chain), 0)

(***************************************************************************)
(* Blockchain (src/blockchain/index.js)                                    *)
(***************************************************************************)
Abs(n) == IF n < 0 THEN 0 - n ELSE n

\* variant: the first block taken for the last
First(chain) == chain[1]

\* _.last(chain)
Last(chain) == chain[Len(chain)]

\* Object.values(transaction.outputMap)[0] !== MINING_REWARD
FirstOutputIsNotReward(outputMap) ==
    IF outputMap = <<>> THEN TRUE ELSE outputMap[1].amount # MINING_REWARD

\* variant: the balance taken over the chain under validation
trueBalanceOfCandidate(thisChain, chain, address) == calculateBalance(chain, address)

\* Wallet.calculateBalance({ chain: this.chain, address })
trueBalance(thisChain, chain, address) == calculateBalance(thisChain, address)

\* the inner loop over block.data; "next" when the block raised no objection
RECURSIVE validBlockTransactions(_, _, _, _, _, _)
validBlockTransactions(thisChain, chain, txs, j, rewardTransactionCount, transactionSet) ==
    IF j > Len(txs) THEN "next"
    ELSE LET transaction == txs[j]
         IN  IF transaction.input.address = REWARD_INPUT.address
             THEN IF rewardTransactionCount + 1 > 1 THEN "false"
                  ELSE IF FirstOutputIsNotReward(transaction.outputMap) THEN "false"
                  ELSE validBlockTransactions(thisChain, chain, txs, j + 1,
                                              rewardTransactionCount + 1, transactionSet)
             ELSE IF ~validTransaction(transaction) THEN "false"
                  ELSE IF transaction.input.amount
                            # trueBalance(thisChain, chain, transaction.input.address)
                       THEN "false"
                  ELSE IF transaction.ref \in transactionSet THEN "false"
                  ELSE validBlockTransactions(thisChain, chain, txs, j + 1,
                                              rewardTransactionCount,
                                              transactionSet \cup {transaction.ref})

\* the outer loop; iterating a non-empty string payload reads .input.address
\* of a character's undefined .input, which throws a TypeError
RECURSIVE validTransactionDataFrom(_, _, _)
validTransactionDataFrom(thisChain, chain, i) ==
    IF i > Len(chain) THEN "true"
    ELSE LET data == chain[i].data
             r == IF data.kind = "raw"
                  THEN IF data.raw = <<>> THEN "next" ELSE "TypeError"
                  ELSE validBlockTransactions(thisChain, chain, data.txs, 1, 0, {})
         IN  IF r = "next" THEN validTransactionDataFrom(thisChain, chain, i + 1)
             ELSE r

\* this.validTransactionData({ chain }): "true", "false" or "TypeError"
validTransactionData(thisChain, chain) == validTransactionDataFrom(thisChain, chain, 2)

\* variant of the loop of isValidChain: no check of the difficulty step
RECURSIVE isValidChainFromAnyDifficulty(_, _)
isValidChainFromAnyDifficulty(chain, i) ==
    IF i > Len(chain) THEN TRUE
    ELSE LET b == chain[i]
             validatedHash == BlockHash(b.timestamp, b.lastHash, b.data,
                                        b.nonce, b.difficulty)
         IN  IF b.lastHash # chain[i - 1].hash THEN FALSE
             ELSE IF b.hash # validatedHash THEN FALSE
             ELSE isValidChainFromAnyDifficulty(chain, i + 1)

RECURSIVE isValidChainFrom(_, _)
isValidChainFrom(chain, i) ==
    IF i > Len(chain) THEN TRUE
    ELSE LET b == chain[i]
             actualLastHash == chain[i - 1].hash
             lastDifficulty == chain[i - 1].difficulty
             validatedHash == BlockHash(b.timestamp, b.lastHash, b.data,
                                        b.nonce, b.difficulty)
         IN  IF b.lastHash # actualLastHash THEN FALSE
             ELSE IF b.hash # validatedHash THEN FALSE
             ELSE IF Abs(lastDifficulty - b.difficulty) > 1 THEN FALSE
             ELSE isValidChainFrom(chain, i + 1)

\* variant: no comparison of chain[0] with genesis
isValidChainAnyGenesis(chain) ==
    IF chain = <<>> THEN FALSE ELSE isValidChainFrom(chain, 2)

\* JSON.stringify(chain[0]) of an empty array is undefined, never the string
isValidChain(chain) ==
    IF chain = <<>> THEN FALSE
    ELSE IF StringifyBlock(chain[1]) # StringifyBlock(Genesis) THEN FALSE
    ELSE isValidChainFrom(chain, 2)

\* JavaScript truthiness of an argument value
Truthy(v) == v \in {"true", "mock", "clearPool"}

\* variants of the length check: a strict comparison, and one that is off by one
NotLongerStrict(chain, thisChain) == Len(chain) < Len(thisChain)

NotLongerOffByOne(chain, thisChain) == Len(chain) <= Len(thisChain) + 1

\* variant: the comparison turned around
NotLongerReversed(chain, thisChain) == Len(chain) >= Len(thisChain)

\* chain.length <= this.chain.length
NotLonger(chain, thisChain) == Len(chain) <= Len(thisChain)

\* variant of the rejection: the swap done ahead of the transaction check
RejectedAfterSwap(thisChain, chain, trace, outcome) ==
    [trace |-> trace, outcome |-> outcome, onSuccessCalls |-> 0,
     seenByOnSuccess |-> <<>>,
     chain |-> IF Len(trace) > 2 THEN chain ELSE thisChain]

\* a return before the swap: this.chain is what it was
Rejected(thisChain, chain, trace, outcome) ==
    [trace |-> trace, outcome |-> outcome, onSuccessCalls |-> 0,
     seenByOnSuccess |-> <<>>, chain |-> thisChain]

\* variant: this.chain = chain ahead of the callback
AcceptedSwapFirst(thisChain, chain, trace, onSuccess) ==
    IF onSuccess # "undefined"
    THEN [trace |-> trace \o <<"swap", "onSuccess">>, outcome |-> "accepted",
          onSuccessCalls |-> 1, seenByOnSuccess |-> chain, chain |-> chain]
    ELSE [trace |-> trace \o <<"swap">>, outcome |-> "accepted",
          onSuccessCalls |-> 0, seenByOnSuccess |-> <<>>, chain |-> chain]

\* if(onSuccess) onSuccess(); this.chain = chain;
Accepted(thisChain, chain, trace, onSuccess) ==
    IF onSuccess # "undefined"
    THEN [trace |-> trace \o <<"onSuccess", "swap">>, outcome |-> "accepted",
          onSuccessCalls |-> 1, seenByOnSuccess |-> thisChain, chain |-> chain]
    ELSE [trace |-> trace \o <<"swap">>, outcome |-> "accepted",
          onSuccessCalls |-> 0, seenByOnSuccess |-> <<>>, chain |-> chain]

\* validateTransactions && !this.validTransactionData({ chain }), and what follows
CheckTransactions(thisChain, chain, onSuccess, valid) ==
    IF valid = "TypeError"
    THEN Rejected(thisChain, chain,
                  <<"length", "isValidChain", "validTransactionData">>, "threw")
    ELSE IF valid = "false"
         THEN Rejected(thisChain, chain,
                       <<"length", "isValidChain", "validTransactionData">>, "rejected")
    ELSE Accepted(thisChain, chain,
                  <<"length", "isValidChain", "validTransactionData">>, onSuccess)

\* variant: isValidChain ahead of the length check
replaceChainValidatingFirst(thisChain, chain, validateTransactions, onSuccess) ==
    IF ~isValidChain(chain)
    THEN Rejected(thisChain, chain, <<"isValidChain">>, "rejected")
    ELSE IF NotLonger(chain, thisChain)
         THEN Rejected(thisChain, chain, <<"isValidChain", "length">>, "rejected")
    ELSE IF Truthy(validateTransactions)
         THEN CheckTransactions(thisChain, chain, onSuccess,
                                validTransactionData(thisChain, chain))
    ELSE Accepted(thisChain, chain, <<"length", "isValidChain">>, onSuccess)

\* replaceChain(chain, validateTransactions, onSuccess) run on this.chain:
\* the checks evaluated in order (trace), how the call ended, how often and
\* on which local chain onSuccess ran, and the local chain afterwards
replaceChain(thisChain, chain, validateTransactions, onSuccess) ==
    IF NotLonger(chain, thisChain)
    THEN Rejected(thisChain, chain, <<"length">>, "rejected")
    ELSE IF ~isValidChain(chain)
         THEN Rejected(thisChain, chain, <<"length", "isValidChain">>, "rejected")
    ELSE IF Truthy(validateTransactions)
         THEN CheckTransactions(thisChain, chain, onSuccess,
                                validTransactionData(thisChain, chain))
    ELSE Accepted(thisChain, chain, <<"length", "isValidChain">>, onSuccess)

(***************************************************************************)
(* PubSub (src/unnamed/part_000) and the transaction pool it talks to      *)
(***************************************************************************)
\* JSON.stringify(chain): the text keeps content and drops object identity
JSONstringify(chain) ==
    [i \in 1..Len(chain) |->
        [chain[i] EXCEPT !.data.txs =
            [j \in 1..Len(chain[i].data.txs) |->
                [chain[i].data.txs[j] EXCEPT !.ref = 0]]]]

\* JSON.parse(message): every transaction of the text becomes a new object
JSONparse(message) ==
    [i \in 1..Len(message) |->
        [message[i] EXCEPT !.data.txs =
            [j \in 1..Len(message[i].data.txs) |->
                [message[i].data.txs[j] EXCEPT !.ref = 0 - (10 * i + j)]]]]

\* variant of the call: no truthy second argument
ListenerArgsUnvalidated == [validateTransactions |-> "undefined", onSuccess |-> "clearPool"]

\* the arguments the BLOCKCHAIN case passes to replaceChain, by position:
\* the arrow function that clears the pool is the second argument
ListenerArgs == [validateTransactions |-> "clearPool", onSuccess |-> "undefined"]

\* transactionPool.clearBlockchainTransactions({ chain }): the pool is known
\* to the ledger only by the calls it receives
clearBlockchainTransactions(pool, chain) ==
    [pool EXCEPT !.cleared = Append(@, chain)]

(***************************************************************************)
(* Inputs                                                                  *)
(***************************************************************************)
\* Transaction.rewardTransaction({ minerWallet }) for the wallet 1
rewardTransaction == RewardTransaction(1, 1, <<Out(1, MINING_REWARD)>>)

\* wallet 1 spends out of a balance of one mining reward
transaction ==
    SignedTransaction(2, 2, 1, MINING_REWARD,
                      <<Out(2, 20), Out(1, MINING_REWARD - 20)>>)

\* the string 'foo'
Foo == <<102, 111, 111>>

\* the payloads handed to addBlock
Payloads == {TxData(<<rewardTransaction>>), TxData(<<transaction, rewardTransaction>>)}

\* what is done to a chain before it is offered: nothing, chain[0] replaced
\* by a fake genesis, or one field of block i overwritten; a difficulty is
\* lowered by 3 ("difficulty") or by 1 ("nudge") and the block's hash is
\* computed anew for it
Tamper(chain, kind, i) ==
    CASE kind = "none" -> chain
      [] kind = "genesis" -> [chain EXCEPT ![1].data = RawData(Foo)]
      [] kind = "lastHash" -> [chain EXCEPT ![i].lastHash = <<98>>]
      [] kind = "hash" -> [chain EXCEPT ![i].hash = <<102>>]
      [] kind = "data" -> [chain EXCEPT ![i].data = RawData(Foo)]
      [] kind \in {"difficulty", "nudge"} ->
            LET b == chain[i]
                difficulty == IF kind = "nudge" THEN b.difficulty - 1
                              ELSE b.difficulty - 3
            IN  [chain EXCEPT ![i].difficulty = difficulty,
                              ![i].hash = BlockHash(b.timestamp, b.lastHash, b.data,
                                                    b.nonce, difficulty)]

\* what a peer offers: its chain as it is, its chain with one more block
\* mined over the string 'foo' or over a spend and a reward, or its chain
\* tampered with (a fake genesis, a fake hash in the last block)
Kinds == {"none", "foo", "transactions", "genesis", "hash"}

Offered(chain, kind) ==
    CASE kind = "foo" ->
            Append(chain, mineBlock(Last(chain), RawData(Foo),
                                    [nonce |-> 1, elapsed |-> 1]))
      [] kind = "transactions" ->
            Append(chain, mineBlock(Last(chain),
                                    TxData(<<transaction, rewardTransaction>>),
                                    [nonce |-> 1, elapsed |-> 1]))
      [] OTHER -> Tamper(chain, kind, Len(chain))

\* a fake hash is put into a mined block, never into genesis
CanOffer(chain, kind) == kind = "hash" => Len(chain) > 1

\* the (validateTransactions, onSuccess) pairs of the direct calls
Flags ==
    {[validateTransactions |-> "undefined", onSuccess |-> "undefined"],
     [validateTransactions |-> "true", onSuccess |-> "undefined"],
     [validateTransactions |-> "true", onSuccess |-> "mock"],
     [validateTransactions |-> "false", onSuccess |-> "mock"]}

(***************************************************************************)
(* State                                                                   *)
(***************************************************************************)
VARIABLES
    chain,            \* blockchain.chain of the node
    newChain,         \* the chain of a peer, the source of candidates
    transactionPool,  \* the pool collaborator of the node
    last              \* the most recent call and what it did

vars == <<chain, newChain, transactionPool, last>>

NoCall ==
    [op |-> "none", channel |-> "", kind |-> "none", index |-> 0,
     validateTransactions |-> "undefined", onSuccess |-> "undefined",
     pre |-> <<>>, trace |-> <<>>, outcome |-> "", onSuccessCalls |-> 0,
     seenByOnSuccess |-> <<>>, valid |-> FALSE, data |-> "", balance |-> 0]

Init ==
    /\ chain = <<Genesis>>
    /\ newChain = <<Genesis>>
    /\ transactionPool = [cleared |-> <<>>]
    /\ last = NoCall

(***************************************************************************)
(* Operations                                                              *)
(***************************************************************************)
\* blockchain.addBlock({ data })
AddBlock ==
    /\ Len(chain) < MaxLen
    /\ \E data \in Payloads, run \in MineRuns :
            /\ chain' = Append(chain, mineBlock(Last(chain), data, run))
            /\ last' = [NoCall EXCEPT !.op = "addBlock", !.pre = chain]
    /\ UNCHANGED <<newChain, transactionPool>>

\* the peer extends its own chain
PeerAddBlock ==
    /\ Len(newChain) < MaxLen
    /\ \E data \in Payloads, run \in MineRuns :
            newChain' = Append(newChain, mineBlock(Last(newChain), data, run))
    /\ last' = NoCall
    /\ UNCHANGED <<chain, transactionPool>>

CallRecord(op, channel, kind, validateTransactions, onSuccess, r) ==
    [NoCall EXCEPT !.op = op, !.channel = channel, !.kind = kind,
                   !.validateTransactions = validateTransactions,
                   !.onSuccess = onSuccess, !.pre = chain, !.trace = r.trace,
                   !.outcome = r.outcome, !.onSuccessCalls = r.onSuccessCalls,
                   !.seenByOnSuccess = r.seenByOnSuccess]

\* blockchain.replaceChain(candidate, validateTransactions, onSuccess) called
\* directly, onSuccess a callback without effect on the node
ReplaceChain ==
    /\ \E kind \in Kinds, flags \in Flags :
         /\ CanOffer(newChain, kind)
         /\ \E r \in {replaceChain(chain, Offered(newChain, kind),
                                   flags.validateTransactions, flags.onSuccess)} :
               /\ chain' = r.chain
               /\ last' = CallRecord("replaceChain", "", kind,
                                     flags.validateTransactions, flags.onSuccess, r)
    /\ UNCHANGED <<newChain, transactionPool>>

\* listener().message for a message of the BLOCKCHAIN channel (the messages
\* of the other channels never reach the ledger)
Listener ==
    /\ \E kind \in Kinds :
         /\ CanOffer(newChain, kind)
         /\ \E parsedMessage \in {JSONparse(JSONstringify(Offered(newChain, kind)))} :
               \E r \in {replaceChain(chain, parsedMessage,
                                      ListenerArgs.validateTransactions,
                                      ListenerArgs.onSuccess)} :
                  /\ chain' = r.chain
                  /\ transactionPool' =
                       IF r.onSuccessCalls > 0
                       THEN clearBlockchainTransactions(transactionPool, parsedMessage)
                       ELSE transactionPool
                  /\ last' = CallRecord("message", "BLOCKCHAIN", kind,
                                        ListenerArgs.validateTransactions,
                                        ListenerArgs.onSuccess, r)
    /\ UNCHANGED newChain

Next ==
    \/ AddBlock
    \/ PeerAddBlock
    \/ ReplaceChain
    \/ Listener

Spec == Init /\ [][Next]_vars

(***************************************************************************)
(* Properties of replaceChain and of the listener, specification Spec      *)
(***************************************************************************)
\* the last step was a replaceChain call, direct or made by the listener
Replacing == last.op \in {"replaceChain", "message"}

\* the candidate that call was given
Candidate ==
    IF last.op = "message"
    THEN JSONparse(JSONstringify(Offered(newChain, last.kind)))
    ELSE Offered(newChain, last.kind)

\* no block of c after genesis carries a string
OnlyTransactionListsIn(c) == \A i \in 2..Len(c) : c[i].data.kind = "txs"

\* C1: a candidate that is not longer than the local chain, valid or not,
\* leaves the local chain as it was and onSuccess is not invoked
C1_NotLongerRejected ==
    (Replacing /\ Len(Candidate) <= Len(last.pre))
        => (chain = last.pre /\ last.onSuccessCalls = 0)

\* an equal-length valid candidate of more than one block was offered
\* together with a callback
C1_Witness ==
    /\ last.op = "replaceChain"
    /\ last.onSuccess = "mock"
    /\ Len(Candidate) = Len(last.pre)
    /\ Len(Candidate) > 1
    /\ Candidate # last.pre
    /\ isValidChain(Candidate)

\* C2: a strictly longer candidate that is a valid chain and, when
\* validateTransactions is set, has valid transaction data, becomes the
\* local chain
C2_LongerValidReplaces ==
    (/\ Replacing
     /\ Len(Candidate) > Len(last.pre)
     /\ isValidChain(Candidate)
     /\ Truthy(last.validateTransactions)
            => validTransactionData(last.pre, Candidate) = "true")
        => chain = Candidate

\* a longer candidate that carries a spend was validated and swapped in
C2_Witness ==
    /\ last.op = "replaceChain"
    /\ last.validateTransactions = "true"
    /\ last.kind = "transactions"
    /\ Len(last.pre) > 1
    /\ chain = Candidate
    /\ chain # last.pre

\* C3: a strictly longer candidate rejected for its structure or for its
\* transaction data leaves the local chain as it was, and onSuccess is not
\* invoked
C3_AllOrNothing ==
    (/\ Replacing
     /\ Len(Candidate) > Len(last.pre)
     /\ \/ ~isValidChain(Candidate)
        \/ /\ Truthy(last.validateTransactions)
           /\ validTransactionData(last.pre, Candidate) = "false")
        => (chain = last.pre /\ last.onSuccessCalls = 0)

\* a longer, structurally valid candidate was rejected for its transactions
\* while a callback was supplied
C3_Witness ==
    /\ last.op = "replaceChain"
    /\ last.onSuccess = "mock"
    /\ Len(Candidate) > Len(last.pre)
    /\ isValidChain(Candidate)
    /\ last.validateTransactions = "true"
    /\ validTransactionData(last.pre, Candidate) = "false"

\* C5: a chain the listener swaps in is handed to the pool's clear
\* operation, once
C5_PoolClearedOnAccept ==
    (last.op = "message" /\ chain # last.pre)
        => (/\ transactionPool.cleared # <<>>
            /\ transactionPool.cleared[Len(transactionPool.cleared)] = chain)

\* C6: the listener never swaps in a chain whose transaction data
\* validTransactionData did not find valid
C6_ListenerValidates ==
    (last.op = "message" /\ chain # last.pre)
        => (/\ chain = Candidate
            /\ validTransactionData(last.pre, Candidate) = "true"
            /\ \E k \in 1..Len(last.trace) : last.trace[k] = "validTransactionData")

\* the listener swapped in a received chain
C6_Witness ==
    /\ last.op = "message"
    /\ chain # last.pre
    /\ chain = Candidate

\* the checks of a call in the order they were evaluated
ChecksOf(trace) ==
    SelectSeq(trace, LAMBDA step : step \in {"length", "isValidChain",
                                               "validTransactionData"})

\* C16: replaceChain evaluates the length check first and alone for a
\* candidate that is not longer, isValidChain second, and
\* validTransactionData third and only after isValidChain returned true
\* with validateTransactions truthy; the first failing check is the last
C16_ChecksInOrder ==
    Replacing
        => LET checks == ChecksOf(last.trace)
               ran(step) == \E k \in 1..Len(checks) : checks[k] = step
           IN  /\ checks = SubSeq(<<"length", "isValidChain", "validTransactionData">>,
                                  1, Len(checks))
               /\ Len(Candidate) <= Len(last.pre) => last.trace = <<"length">>
               /\ ran("isValidChain") <=> Len(Candidate) > Len(last.pre)
               /\ ran("validTransactionData")
                     <=> /\ Len(Candidate) > Len(last.pre)
                         /\ isValidChain(Candidate)
                         /\ Truthy(last.validateTransactions)

\* a candidate with a fake genesis that is not longer than the local chain
\* was offered with validateTransactions set, and only its length was looked at
C16_Witness ==
    /\ last.op = "replaceChain"
    /\ last.kind = "genesis"
    /\ last.validateTransactions = "true"
    /\ Len(last.pre) > 1
    /\ Len(Candidate) <= Len(last.pre)
    /\ last.trace = <<"length">>

\* C17: replaceChain with validateTransactions truthy ends, for every
\* strictly longer and structurally valid candidate, by accepting or by
\* rejecting, never by raising an exception
C17_NeverThrows ==
    (/\ Replacing
     /\ Len(Candidate) > Len(last.pre)
     /\ isValidChain(Candidate)
     /\ Truthy(last.validateTransactions))
        => last.outcome \in {"accepted", "rejected"}

\* C17, for the candidates whose blocks all carry transaction lists
C17_OnTransactionLists ==
    (Replacing /\ OnlyTransactionListsIn(Candidate))
        => last.outcome \in {"accepted", "rejected"}

\* C20: a supplied onSuccess runs once when the candidate is accepted and
\* not at all when it is not, and it runs ahead of the swap: it sees the
\* old chain, and the candidate is the local chain afterwards
C20_OnSuccessBeforeSwap ==
    (Replacing /\ last.onSuccess # "undefined")
        => IF chain # last.pre \/ last.outcome = "accepted"
           THEN /\ last.outcome = "accepted"
                /\ last.onSuccessCalls = 1
                /\ last.seenByOnSuccess = last.pre
                /\ chain = Candidate
                /\ SubSeq(last.trace, Len(last.trace) - 1, Len(last.trace))
                     = <<"onSuccess", "swap">>
           ELSE /\ last.onSuccessCalls = 0
                /\ \A k \in 1..Len(last.trace) :
                      last.trace[k] \notin {"onSuccess", "swap"}

\* a callback was supplied with a candidate that was validated and swapped
\* in for a chain of more than one block
C20_Witness ==
    /\ last.op = "replaceChain"
    /\ last.onSuccess = "mock"
    /\ last.validateTransactions = "true"
    /\ last.outcome = "accepted"
    /\ Len(last.pre) > 1
    /\ chain # last.pre
    /\ last.seenByOnSuccess = last.pre

(***************************************************************************)
(* isValidChain applied to mined chains and to tampered copies of them,    *)
(* specification SpecIsValidChain                                          *)
(***************************************************************************)
\* the chains addBlock builds out of genesis with at most n blocks mined
RECURSIVE MinedChains(_)
MinedChains(n) ==
    IF n = 0 THEN {<<Genesis>>}
    ELSE LET shorter == MinedChains(n - 1)
         IN  shorter \cup
               {Append(c, mineBlock(Last(c), data, run)) :
                  c \in {x \in shorter : Len(x) = n},
                  data \in Payloads \cup {RawData(Foo)}, run \in MineRuns}

\* the tampering that touches one mined block
BlockKinds == {"lastHash", "hash", "data", "difficulty", "nudge"}

\* blockchain.chain is mined, and isValidChain is handed a copy of it,
\* tampered with or not
InitIsValidChain ==
    /\ chain \in MinedChains(MaxLen)
    /\ \E kind \in {"none", "genesis"} \cup BlockKinds :
         \E i \in 1..Len(chain) :
            /\ IF kind \in BlockKinds THEN i > 1 ELSE i = 1
            /\ newChain = Tamper(chain, kind, i)
            /\ last = [NoCall EXCEPT !.kind = kind, !.index = i]
    /\ transactionPool = [cleared |-> <<>>]

\* Blockchain.isValidChain(newChain)
CallIsValidChain ==
    /\ last.op = "none"
    /\ last' = [last EXCEPT !.op = "isValidChain", !.valid = isValidChain(newChain)]
    /\ UNCHANGED <<chain, newChain, transactionPool>>

SpecIsValidChain == InitIsValidChain /\ [][CallIsValidChain]_vars

\* the three conditions on the blocks after chain[0], and chain[0] itself
WellFormed(c) ==
    /\ c[1] = Genesis
    /\ \A i \in 2..Len(c) :
         /\ c[i].lastHash = c[i - 1].hash
         /\ c[i].hash = BlockHash(c[i].timestamp, c[i].lastHash, c[i].data,
                                  c[i].nonce, c[i].difficulty)
         /\ Abs(c[i - 1].difficulty - c[i].difficulty) <= 1

\* C4: isValidChain is true exactly of the chains that start with genesis
\* and whose every later block links to its predecessor's hash, carries its
\* re-derived hash and a difficulty within 1 of its predecessor's; [genesis]
\* is valid, and a mined chain with one block's lastHash, hash or difficulty
\* (by more than 1) corrupted is not
C4_IsValidChainIff ==
    last.op = "isValidChain"
        => /\ last.valid <=> WellFormed(newChain)
           /\ newChain = <<Genesis>> => last.valid
           /\ last.kind = "none" => last.valid
           /\ last.kind \in {"lastHash", "hash", "difficulty"} => ~last.valid

\* the difficulty of the last block of a mined chain was lowered by 3, the
\* block's hash computed anew, and isValidChain said no
C4_Witness ==
    /\ last.op = "isValidChain"
    /\ last.kind = "difficulty"
    /\ last.index = Len(newChain)
    /\ Len(newChain) > 2
    /\ ~last.valid

(***************************************************************************)
(* validTransactionData applied to chains with all kinds of transaction    *)
(* data, specification SpecValidTransactionData                            *)
(***************************************************************************)
\* the transaction objects of the tests and their like: a second reward
\* object of equal content, a reward of a wrong amount, a reward with a
\* second output, a second object of the spend's content, a spend whose
\* outputMap was changed after signing, and a spend that claims a balance of
\* 90 (the evilTransaction)
TransactionObjects ==
    {rewardTransaction,
     RewardTransaction(3, 1, <<Out(1, MINING_REWARD)>>),
     RewardTransaction(4, 4, <<Out(1, 999)>>),
     RewardTransaction(5, 5, <<Out(1, MINING_REWARD), Out(2, 999)>>),
     transaction,
     SignedTransaction(6, 2, 1, MINING_REWARD,
                       <<Out(2, 20), Out(1, MINING_REWARD - 20)>>),
     Transaction(7, 7, 1, MINING_REWARD,
                 Signature(1, <<Out(2, 20), Out(1, MINING_REWARD - 20)>>),
                 <<Out(2, 20), Out(1, 999)>>),
     SignedTransaction(8, 8, 1, 90, <<Out(1, 80), Out(2, 10)>>)}

\* the sequences of at most n transaction objects
RECURSIVE TransactionLists(_)
TransactionLists(n) ==
    IF n = 0 THEN {<<>>}
    ELSE LET shorter == TransactionLists(n - 1)
         IN  shorter \cup
               {Append(txs, t) : txs \in {x \in shorter : Len(x) = n - 1},
                                 t \in TransactionObjects}

\* block data: the strings 'foo' and '', and the transaction lists
DataOf(n) == {RawData(Foo), RawData(<<>>)} \cup {TxData(txs) : txs \in TransactionLists(n)}

Mined(c, data) == Append(c, mineBlock(Last(c), data, [nonce |-> 1, elapsed |-> 1]))

\* the chains handed to validTransactionData: one block of any data, or a
\* block of the addBlock payloads followed by one of shorter data
DataChains ==
    {Mined(<<Genesis>>, data) : data \in DataOf(MaxTxs)}
      \cup {Mined(Mined(<<Genesis>>, first), data) :
              first \in Payloads \cup {RawData(Foo)}, data \in DataOf(MaxTxs - 1)}

\* the node's chain is genesis or one mined block on it
InitValidTransactionData ==
    /\ chain \in MinedChains(1)
    /\ newChain \in DataChains
    /\ transactionPool = [cleared |-> <<>>]
    /\ last = NoCall

\* blockchain.validTransactionData({ chain: newChain })
CallValidTransactionData ==
    /\ last.op = "none"
    /\ last' = [NoCall EXCEPT !.op = "validTransactionData",
                              !.data = validTransactionData(chain, newChain)]
    /\ UNCHANGED <<chain, newChain, transactionPool>>

SpecValidTransactionData == InitValidTransactionData /\ [][CallValidTransactionData]_vars

IsReward(t) == t.input.address = REWARD_INPUT.address

\* the positions of the blocks after genesis that hold transaction lists
TransactionBlocks(c) == {i \in 2..Len(c) : c[i].data.kind = "txs"}

\* no block after genesis carries a string
OnlyTransactionLists(c) == TransactionBlocks(c) = 2..Len(c)

ManyRewards(c) ==
    \E i \in TransactionBlocks(c) :
       Cardinality({j \in 1..Len(c[i].data.txs) : IsReward(c[i].data.txs[j])}) > 1

WrongReward(c) ==
    \E i \in TransactionBlocks(c) : \E j \in 1..Len(c[i].data.txs) :
       /\ IsReward(c[i].data.txs[j])
       /\ Len(c[i].data.txs[j].outputMap) = 1
       /\ c[i].data.txs[j].outputMap[1].amount # MINING_REWARD

SameObjectTwice(c) ==
    \E i \in TransactionBlocks(c) : \E j, k \in 1..Len(c[i].data.txs) :
       j < k /\ c[i].data.txs[j].ref = c[i].data.txs[k].ref

\* C7: a chain with more than one reward transaction in one block after
\* genesis makes validTransactionData return false
C7_ManyRewardsFalse ==
    (last.op = "validTransactionData" /\ ManyRewards(newChain)) => last.data = "false"

\* C7, on the chains whose blocks all carry transaction lists
C7_OnTransactionLists ==
    (/\ last.op = "validTransactionData"
     /\ ManyRewards(newChain)
     /\ OnlyTransactionLists(newChain)) => last.data = "false"

\* C8: a chain with a reward transaction whose output is not MINING_REWARD
\* makes validTransactionData return false
C8_WrongRewardFalse ==
    (last.op = "validTransactionData" /\ WrongReward(newChain)) => last.data = "false"

\* C8, on the chains whose blocks all carry transaction lists
C8_OnTransactionLists ==
    (/\ last.op = "validTransactionData"
     /\ WrongReward(newChain)
     /\ OnlyTransactionLists(newChain)) => last.data = "false"

\* C9: validTransactionData returns true only if every spend of the chain
\* claims, as input.amount, the balance calculateBalance finds for the
\* spender in the node's own chain
C9_BalanceOverLocalChain ==
    (last.op = "validTransactionData" /\ last.data = "true")
        => \A i \in TransactionBlocks(newChain) :
              \A j \in 1..Len(newChain[i].data.txs) :
                 LET t == newChain[i].data.txs[j]
                 IN  ~IsReward(t)
                        => t.input.amount = calculateBalance(chain, t.input.address)

\* a chain was found valid whose spender has another balance in that chain
\* than in the node's chain
C9_Witness ==
    /\ last.op = "validTransactionData"
    /\ last.data = "true"
    /\ \E i \in TransactionBlocks(newChain) : \E j \in 1..Len(newChain[i].data.txs) :
          LET t == newChain[i].data.txs[j]
          IN  /\ ~IsReward(t)
              /\ calculateBalance(newChain, t.input.address)
                   # calculateBalance(chain, t.input.address)

\* C10: a chain with one transaction object at two positions of a block
\* makes validTransactionData return false
C10_SameObjectFalse ==
    (last.op = "validTransactionData" /\ SameObjectTwice(newChain))
        => last.data = "false"

\* C10, on the chains whose blocks all carry transaction lists
C10_OnTransactionLists ==
    (/\ last.op = "validTransactionData"
     /\ SameObjectTwice(newChain)
     /\ OnlyTransactionLists(newChain)) => last.data = "false"
\* C18: validTransactionData returns true only for chains whose every
\* reward-addressed transaction has exactly one entry in its outputMap, of
\* the amount MINING_REWARD
C18_RewardSingleOutput ==
    (last.op = "validTransactionData" /\ last.data = "true")
        => \A i \in TransactionBlocks(newChain) :
              \A j \in 1..Len(newChain[i].data.txs) :
                 LET t == newChain[i].data.txs[j]
                 IN  IsReward(t) => /\ Len(t.outputMap) = 1
                                    /\ t.outputMap[1].amount = MINING_REWARD

\* C18, with the first entry in the place of the only entry
C18_FirstOutputOnly ==
    (last.op = "validTransactionData" /\ last.data = "true")
        => \A i \in TransactionBlocks(newChain) :
              \A j \in 1..Len(newChain[i].data.txs) :
                 LET t == newChain[i].data.txs[j]
                 IN  IsReward(t) => /\ Len(t.outputMap) >= 1
                                    /\ t.outputMap[1].amount = MINING_REWARD

(***************************************************************************)
(* cryptoHash applied to a tuple of inputs and to a permutation of it,     *)
(* specification SpecCryptoHash                                            *)
(***************************************************************************)
\* the strings 'one', 'two' and 'three'
HashStrings == {<<111, 110, 101>>, <<116, 119, 111>>, <<116, 104, 114, 101, 101>>}

\* the tuples of one to three of these strings, serialised
StringTuples ==
    UNION {[1..n -> {StringifyString(s) : s \in HashStrings}] : n \in 1..3}

\* the five arguments of the hash of a block, in the order of Block.mineBlock
FieldTuple(b) ==
    <<StringifyNumber(b.timestamp), StringifyString(b.lastHash),
      StringifyData(b.data), StringifyNumber(b.nonce),
      StringifyNumber(b.difficulty)>>

\* the tuple with its elements in the order p
Permute(inputs, p) == [k \in 1..Len(inputs) |-> inputs[p[k]]]

\* either a tuple of strings and a permutation of it, or a mined chain of
\* which block i stores the hash of its five fields taken in a permuted order
InitCryptoHash ==
    /\ chain \in MinedChains(MaxLen - 1)
    /\ transactionPool = [cleared |-> <<>>]
    /\ \/ /\ chain = <<Genesis>>
          /\ newChain = chain
          /\ \E inputs \in StringTuples : \E p \in Permutations(1..Len(inputs)) :
                last = [NoCall EXCEPT !.kind = "strings", !.pre = inputs, !.trace = p]
       \/ \E i \in 2..Len(chain) : \E p \in Permutations(1..5) :
             /\ newChain = [chain EXCEPT
                              ![i].hash = cryptoHash(Permute(FieldTuple(chain[i]), p))]
             /\ last = [NoCall EXCEPT !.kind = "fields", !.index = i,
                                      !.pre = FieldTuple(chain[i]), !.trace = p]

\* cryptoHash(...inputs) and cryptoHash(...permuted inputs), and
\* Blockchain.isValidChain(newChain)
CallCryptoHash ==
    /\ last.op = "none"
    /\ last' = [last EXCEPT !.op = "cryptoHash",
                            !.data = <<cryptoHash(last.pre),
                                       cryptoHash(Permute(last.pre, last.trace))>>,
                            !.valid = isValidChain(newChain)]
    /\ UNCHANGED <<chain, newChain, transactionPool>>

SpecCryptoHash == InitCryptoHash /\ [][CallCryptoHash]_vars

\* C11: cryptoHash gives a tuple of inputs and every permutation of it the
\* same digest, and a mined chain in which a block stores the hash of its
\* five fields taken in another order still passes isValidChain
C11_OrderIndependent ==
    last.op = "cryptoHash"
        => /\ last.data[1] = last.data[2]
           /\ last.kind = "fields" => last.valid

\* the five fields of a mined block were hashed in an order that changes
\* the tuple, and the chain storing that hash was found valid
C11_Witness ==
    /\ last.op = "cryptoHash"
    /\ last.kind = "fields"
    /\ Permute(last.pre, last.trace) # last.pre
    /\ last.data[1] = newChain[last.index].hash
    /\ last.valid
(***************************************************************************)
(* Long runs of addBlock and replaceChain over one payload, the peer's     *)
(* blocks built by hand, specification SpecLedger                          *)
(***************************************************************************)
\* a block built by hand on lastBlock the way the jumped-difficulty test
\* builds its badBlock: empty data, nonce 0, the difficulty of lastBlock
\* lowered by step, the hash taken over (timestamp, lastHash, difficulty,
\* nonce, data)
badBlock(lastBlock, step) ==
    LET timestamp == lastBlock.timestamp + 1
        lastHash == lastBlock.hash
        nonce == 0
        data == TxData(<<>>)
        difficulty == lastBlock.difficulty - step
        hash == cryptoHash(<<StringifyNumber(timestamp), StringifyString(lastHash),
                             StringifyNumber(difficulty), StringifyNumber(nonce),
                             StringifyData(data)>>)
    IN  Block(timestamp, lastHash, hash, data, nonce, difficulty)

\* blockchain.addBlock({ data }) with the reward as data
LedgerAddBlock ==
    /\ Len(chain) < MaxChain
    /\ \E run \in MineRuns :
          chain' = Append(chain, mineBlock(Last(chain), TxData(<<rewardTransaction>>), run))
    /\ last' = [NoCall EXCEPT !.op = "addBlock", !.pre = chain]
    /\ UNCHANGED <<newChain, transactionPool>>

\* the peer pushes a hand-built block of a difficulty one below its tail's
PeerPush ==
    /\ Len(newChain) < MaxChain
    /\ newChain' = Append(newChain, badBlock(Last(newChain), 1))
    /\ last' = NoCall
    /\ UNCHANGED <<chain, transactionPool>>

\* what the peer offers in the long runs: its chain, or its chain with a
\* fake genesis or a fake hash in the last block
LedgerKinds == {"none", "genesis", "hash"}

\* blockchain.replaceChain(candidate, validateTransactions, onSuccess)
LedgerReplaceChain ==
    /\ \E kind \in LedgerKinds, flags \in Flags :
         /\ CanOffer(newChain, kind)
         /\ \E r \in {replaceChain(chain, Offered(newChain, kind),
                                   flags.validateTransactions, flags.onSuccess)} :
               /\ chain' = r.chain
               /\ last' = CallRecord("replaceChain", "", kind,
                                     flags.validateTransactions, flags.onSuccess, r)
    /\ UNCHANGED <<newChain, transactionPool>>

LedgerNext ==
    \/ LedgerAddBlock
    \/ PeerPush
    \/ LedgerReplaceChain

SpecLedger == Init /\ [][LedgerNext]_vars

\* C12: the local chain is a valid chain in every reachable state: every
\* block after genesis links to its predecessor's hash, carries its
\* re-derived hash and a difficulty within 1 of its predecessor's
C12_LedgerInvariant == isValidChain(chain) /\ WellFormed(chain)

\* C12, as long as no block before the tail has a difficulty below 0
C12_WhileNoNegativeDifficulty ==
    (\A i \in 1..(Len(chain) - 1) : chain[i].difficulty >= 0) => WellFormed(chain)

\* C13: index 0 of the local chain is the genesis constant in every
\* reachable state
C13_GenesisFixed == chain[1] = Genesis

\* a candidate was swapped in for a chain of more than one block
C13_Witness ==
    /\ last.op = "replaceChain"
    /\ last.outcome = "accepted"
    /\ chain # last.pre
    /\ Len(last.pre) > 1

\* C14: every block of the local chain has a difficulty of at least 1 in
\* every reachable state
C14_DifficultyAtLeastOne == \A i \in 1..Len(chain) : chain[i].difficulty >= 1

\* C15: addBlock lengthens the local chain by one, a replaceChain that does
\* not accept leaves it as it is, an accepting one lengthens it; the length
\* never decreases
C15_LengthNeverDecreases ==
    [][/\ Len(chain') >= Len(chain)
       /\ last'.op = "addBlock" => Len(chain') = Len(chain) + 1
       /\ (last'.op = "replaceChain" /\ last'.outcome # "accepted") => chain' = chain
       /\ (last'.op = "replaceChain" /\ last'.outcome = "accepted")
             => Len(chain') > Len(chain)]_vars

\* a candidate longer by more than one block was swapped in for a chain
\* that addBlock had lengthened
C15_Witness ==
    /\ last.op = "replaceChain"
    /\ last.outcome = "accepted"
    /\ Len(last.pre) > 1
    /\ Len(chain) > Len(last.pre) + 1

\* C19: the block addBlock appends names as lastHash the hash of the block
\* that is the tail of the local chain when it is appended, and nothing else
\* of the chain changes
C19_AppendedOntoTail ==
    last.op = "addBlock"
        => /\ Len(chain) = Len(last.pre) + 1
           /\ SubSeq(chain, 1, Len(last.pre)) = last.pre
           /\ chain[Len(chain)].lastHash = last.pre[Len(last.pre)].hash

\* addBlock appended onto a tail that replaceChain had swapped in
C19_Witness ==
    /\ last.op = "addBlock"
    /\ Len(last.pre) > 1
    /\ Len(newChain) >= Len(last.pre)
    /\ last.pre = SubSeq(newChain, 1, Len(last.pre))
    /\ chain[Len(chain)].lastHash = newChain[Len(last.pre)].hash

====
